---- MODULE Spec2Model ----
(***************************************************************************)
(* Peer graph and flood broadcast of src/core.py.                          *)
(*                                                                         *)
(* The program is single threaded: connect, set_role and send_message are  *)
(* top-level calls made one after the other.  connect and set_role are     *)
(* modelled as one step each; send_message is modelled frame by frame: the *)
(* Python call stack is the variable stack, one record per active          *)
(* invocation of Node.send_message, and each step handles one peer of the  *)
(* innermost invocation or returns from it.                                *)
(***************************************************************************)
EXTENDS Integers, Sequences, FiniteSets, TLC

(* ---------------- bounds ---------------- *)
MaxCalls == 3      \* top-level calls made by the driving program under Spec
MaxDepth == 4      \* frames of send_message the interpreter allows before
                   \* it raises RecursionError

(* ---------------- universe ---------------- *)
Nodes == {"A", "B", "C"}              \* node objects (identity)
Messages == {"hi", "x"}

\* Roles (core.py:6-13)
ENCRYPTER == "encrypter"
SENDER == "sender"
RECEIVER == "receiver"
WORD_GENERATOR == "word_generator"
Roles == {ENCRYPTER, SENDER, RECEIVER, WORD_GENERATOR}

\* the concrete classes a node object can be constructed from
Classes == {"Node", "Encrypter", "Sender", "Receiver", "WordGenerator"}

\* the classes the nodes of the initial states are built from.  Node and
\* Encrypter objects differ from Sender objects only in the role the
\* constructor stores, and set_role reaches those roles from a Sender.
Constructed == {"Sender", "Receiver", "WordGenerator"}

\* self.id = identifier: the identifiers handed to the constructors; the
\* program does not require them to be unique (A and C share one)
id == [n \in Nodes |-> IF n = "B" THEN 2 ELSE 1]

VARIABLES
    peers,      \* peers[n]: self.peers, a list of node objects
    role,       \* role[n]: self.role
    kind,       \* kind[n]: the class n was constructed from
    stack,      \* active send_message invocations, outermost first
    receipts,   \* lines printed during the last top-level call
    result,     \* outcome of the last top-level call
    last,       \* the last top-level call
    calls       \* number of top-level calls made so far

vars == <<peers, role, kind, stack, receipts, result, last, calls>>

(* ---------------- helpers ---------------- *)
Range(s) == {s[i] : i \in 1..Len(s)}

\* a membership test that looks into the other node's list
InPeersOfNode(P, n, node) == \E i \in 1..Len(P[node]) : P[node][i] = node

\* `node in self.peers`: list membership; Node defines no __eq__, so the
\* comparison is object identity
InPeers(P, n, node) == \E i \in 1..Len(P[n]) : P[n][i] = node

Count(s, x) == Cardinality({i \in 1..Len(s) : s[i] = x})

\* role stored by the constructor of each class (Node takes it as argument)
ClassRole(c, r) ==
    CASE c = "Encrypter" -> ENCRYPTER
      [] c = "Sender" -> SENDER
      [] c = "Receiver" -> RECEIVER
      [] c = "WordGenerator" -> WORD_GENERATOR
      [] OTHER -> r

\* receive_message found on every node whose role is RECEIVER
HasReceiveByRole(n) == role[n] = RECEIVER

\* only Receiver defines receive_message
HasReceive(n) == kind[n] = "Receiver"

(* ---------------- Node.connect ---------------- *)
\* a connect that appends on one side only
connectOneWay(P, self, node) ==
    IF ~InPeers(P, self, node)
    THEN [P EXCEPT ![self] = Append(@, node)]
    ELSE P

\* a connect that appends on both sides without the reciprocal test
connectBoth(P, self, node) ==
    IF ~InPeers(P, self, node)
    THEN [[P EXCEPT ![self] = Append(@, node)] EXCEPT ![node] = Append(@, self)]
    ELSE P

\* a connect that puts the new entry at the head of the list
connectPrepend(P, self, node) ==
    IF ~InPeers(P, self, node)
    THEN LET Q == [P EXCEPT ![self] = <<node>> \o @]
         IN  IF ~InPeers(Q, node, self)
             THEN [Q EXCEPT ![node] = <<self>> \o @]
             ELSE Q
    ELSE P

RECURSIVE connect(_, _, _)
connect(P, self, node) ==
    IF ~InPeers(P, self, node)
    THEN connect([P EXCEPT ![self] = Append(@, node)], node, self)
    ELSE P

\* the number of connect invocations self.connect(node) makes, this one
\* (the d-th) included; the count stops at the interpreter's recursion limit
RECURSIVE connectCalls(_, _, _, _)
connectCalls(P, self, node, d) ==
    IF d >= MaxDepth THEN d
    ELSE IF ~InPeers(P, self, node)
    THEN connectCalls([P EXCEPT ![self] = Append(@, node)], node, self, d + 1)
    ELSE d

(* ---------------- Node.set_role ---------------- *)
\* a set_role that lets a WORD_GENERATOR be given its own role again
set_roleSameAllowed(R, self, r) ==
    IF R[self] = WORD_GENERATOR /\ r # WORD_GENERATOR
    THEN [raised |-> TRUE, role |-> R]
    ELSE [raised |-> FALSE, role |-> [R EXCEPT ![self] = r]]

\* a set_role that also refuses to hand out WORD_GENERATOR
set_roleNoNewGenerator(R, self, r) ==
    IF R[self] = WORD_GENERATOR \/ r = WORD_GENERATOR
    THEN [raised |-> TRUE, role |-> R]
    ELSE [raised |-> FALSE, role |-> [R EXCEPT ![self] = r]]

\* a set_role without the WORD_GENERATOR test
set_roleUnguarded(R, self, r) ==
    [raised |-> FALSE, role |-> [R EXCEPT ![self] = r]]

\* raised: ValueError was raised; role: the roles after the call
set_role(R, self, r) ==
    IF R[self] = WORD_GENERATOR
    THEN [raised |-> TRUE, role |-> R]
    ELSE [raised |-> FALSE, role |-> [R EXCEPT ![self] = r]]

(* ---------------- Receiver.receive_message ---------------- *)
\* a line with the two identifiers in each other's place
receive_messageSwapped(self, message, sender) ==
    [receiver |-> sender, sender |-> self, message |-> message,
     line |-> <<id[sender], id[self], message>>]

\* the printed line: receiver id, sender id, message (the two objects are
\* kept next to the printed identifiers)
receive_message(self, message, sender) ==
    [receiver |-> self, sender |-> sender, message |-> message,
     line |-> <<id[self], id[sender], message>>]

(* ---------------- Node.send_message: the loop body ---------------- *)
\* a test that leaves out the sender instead of the node itself
DispatchSkipSender(R, self, sender, peer) ==
    IF R[peer] = RECEIVER THEN "receive"
    ELSE IF peer # sender THEN "send"
    ELSE "skip"

\* the two tests in the other order
DispatchSendFirst(R, self, sender, peer) ==
    IF peer # self THEN "send"
    ELSE IF R[peer] = RECEIVER THEN "receive"
    ELSE "skip"

\* a loop body without the `peer is not self` test
DispatchNoSelfTest(R, self, sender, peer) ==
    IF R[peer] = RECEIVER THEN "receive" ELSE "send"

\* what the loop body does with one peer
Dispatch(R, self, sender, peer) ==
    IF R[peer] = RECEIVER THEN "receive"
    ELSE IF peer # self THEN "send"
    ELSE "skip"

\* peer.receive_message(message, <argument>) hands over self
ReceiptSenderSelf(self, sender) == self

\* the second argument of peer.receive_message(message, sender)
ReceiptSender(self, sender) == sender

\* peer.send_message(message, <argument>) hands over the sender it got
ForwardSenderKept(self, sender) == sender

\* the second argument of peer.send_message(message, self)
ForwardSender(self, sender) == self

(* ---------------- initial states ---------------- *)
Constructor(k) ==
    /\ peers = [n \in Nodes |-> <<>>]
    /\ kind = k
    /\ role = [n \in Nodes |-> ClassRole(k[n], SENDER)]
    /\ stack = <<>>
    /\ receipts = <<>>
    /\ result = "none"
    /\ last = [op |-> "none"]
    /\ calls = 0

Init == \E k \in [Nodes -> Constructed] : Constructor(k)

\* three Sender objects
InitSenders == Constructor([n \in Nodes |-> "Sender"])

(* ---------------- top-level calls ---------------- *)
\* no call is in progress
Idle == stack = <<>>

Connect(a, b) ==
    /\ Idle
    /\ peers' = connect(peers, a, b)
    /\ result' = "returned"
    /\ last' = [op |-> "connect", self |-> a, node |-> b]
    /\ receipts' = <<>>
    /\ UNCHANGED <<role, kind, stack>>

\* set_role that returns
SetRole(n, r) ==
    /\ Idle
    /\ ~set_role(role, n, r).raised
    /\ role' = set_role(role, n, r).role
    /\ result' = "returned"
    /\ last' = [op |-> "set_role", self |-> n, role |-> r]
    /\ receipts' = <<>>
    /\ UNCHANGED <<peers, kind, stack>>

\* set_role that raises ValueError
SetRoleFail(n, r) ==
    /\ Idle
    /\ set_role(role, n, r).raised
    /\ role' = set_role(role, n, r).role
    /\ result' = "ValueError"
    /\ last' = [op |-> "set_role", self |-> n, role |-> r]
    /\ receipts' = <<>>
    /\ UNCHANGED <<peers, kind, stack>>

\* the driving program calls n.send_message(message, sender)
SendMessage(n, message, sender) ==
    /\ Idle
    /\ stack' = <<[self |-> n, message |-> message, sender |-> sender, i |-> 1]>>
    /\ receipts' = <<>>
    /\ result' = "running"
    /\ last' = [op |-> "send_message", self |-> n, message |-> message,
                sender |-> sender]
    /\ UNCHANGED <<peers, role, kind>>

(* ---------------- one step of the innermost send_message ---------------- *)
Top == stack[Len(stack)]
HasPeer == stack # <<>> /\ Top.i <= Len(peers[Top.self])
Peer == peers[Top.self][Top.i]
\* a loop that steps over every other peer
AdvanceTwo(s) == [s EXCEPT ![Len(s)].i = @ + 2]
Advance(s) == [s EXCEPT ![Len(s)].i = @ + 1]
Todo == Dispatch(role, Top.self, Top.sender, Peer)

\* peer.role == Roles.RECEIVER and the peer is a Receiver object
Deliver ==
    /\ HasPeer
    /\ Todo = "receive"
    /\ HasReceive(Peer)
    /\ receipts' = Append(receipts,
          receive_message(Peer, Top.message, ReceiptSender(Top.self, Top.sender)))
    /\ stack' = Advance(stack)
    /\ UNCHANGED <<peers, role, kind, result, last>>

\* peer.role == Roles.RECEIVER but the object has no receive_message:
\* AttributeError unwinds every frame
DeliverFail ==
    /\ HasPeer
    /\ Todo = "receive"
    /\ ~HasReceive(Peer)
    /\ stack' = <<>>
    /\ result' = "AttributeError"
    /\ UNCHANGED <<peers, role, kind, receipts, last>>

\* peer.send_message(message, self)
Forward ==
    /\ HasPeer
    /\ Todo = "send"
    /\ Len(stack) < MaxDepth
    /\ stack' = Append(stack, [self |-> Peer, message |-> Top.message,
                               sender |-> ForwardSender(Top.self, Top.sender),
                               i |-> 1])
    /\ UNCHANGED <<peers, role, kind, receipts, result, last>>

\* the same call when the recursion limit is reached: RecursionError
\* unwinds every frame
Overflow ==
    /\ HasPeer
    /\ Todo = "send"
    /\ Len(stack) >= MaxDepth
    /\ stack' = <<>>
    /\ result' = "RecursionError"
    /\ UNCHANGED <<peers, role, kind, receipts, last>>

\* a skip that takes the self entry out of the list it is iterating
SkipDropsSelf ==
    /\ HasPeer
    /\ Todo = "skip"
    /\ peers' = [peers EXCEPT ![Top.self] = SelectSeq(@, LAMBDA p : p # Top.self)]
    /\ UNCHANGED <<role, kind, stack, receipts, result, last>>

\* neither branch is taken: nothing is done for this peer
Skip ==
    /\ HasPeer
    /\ Todo = "skip"
    /\ stack' = Advance(stack)
    /\ UNCHANGED <<peers, role, kind, receipts, result, last>>

\* the for loop is exhausted: the invocation returns to its caller, whose
\* loop moves on to its next peer
Return ==
    /\ stack # <<>>
    /\ Top.i > Len(peers[Top.self])
    /\ stack' = IF Len(stack) = 1 THEN <<>>
                ELSE Advance(SubSeq(stack, 1, Len(stack) - 1))
    /\ result' = IF Len(stack) = 1 THEN "returned" ELSE result
    /\ UNCHANGED <<peers, role, kind, receipts, last>>

(* ---------------- specifications ---------------- *)
\* the driving program makes one more top-level call
Call == calls < MaxCalls /\ calls' = calls + 1
\* the call in progress goes on
Step == UNCHANGED calls

\* a program that builds three nodes of any classes and makes at most
\* MaxCalls calls on them
Next ==
    \/ \E a, b \in Nodes : Call /\ Connect(a, b)
    \/ \E n \in Nodes, r \in Roles : Call /\ SetRole(n, r)
    \/ \E n \in Nodes, r \in Roles : Call /\ SetRoleFail(n, r)
    \/ \E n, s \in Nodes, m \in Messages : Call /\ SendMessage(n, m, s)
    \/ Step /\ Deliver
    \/ Step /\ DeliverFail
    \/ Step /\ Forward
    \/ Step /\ Overflow
    \/ Step /\ Skip
    \/ Step /\ Return

Spec == Init /\ [][Next]_vars

\* a program that builds three Senders and makes any number of connect and
\* send_message calls on them
NextSenders ==
    \/ \E a, b \in Nodes : Step /\ Connect(a, b)
    \/ \E n, s \in Nodes, m \in Messages : Step /\ SendMessage(n, m, s)
    \/ Step /\ Forward
    \/ Step /\ Overflow
    \/ Step /\ Skip
    \/ Step /\ Return

SendersSpec == InitSenders /\ [][NextSenders]_vars

TypeOK ==
    /\ \A n \in Nodes : Range(peers[n]) \subseteq Nodes
    /\ role \in [Nodes -> Roles]
    /\ kind \in [Nodes -> Classes]
    /\ Len(stack) <= MaxDepth
    /\ calls \in 0..MaxCalls

(***************************************************************************)
(* Properties                                                              *)
(***************************************************************************)
\* b is an entry of a's peer list
Listed(a, b) == b \in Range(peers[a])

\* this step is the top-level call a.connect(b)
IsConnect(a, b) ==
    stack = <<>> /\ last' = [op |-> "connect", self |-> a, node |-> b]

\* this step is the top-level call n.set_role(r)
IsSetRole(n, r) ==
    /\ stack = <<>>
    /\ calls' = calls + 1
    /\ last' = [op |-> "set_role", self |-> n, role |-> r]

\* C1: peer symmetry.  In every state, b is in a's peer list if and only if
\* a is in b's peer list, self connections included; and in the state right
\* after a.connect(b) returned, b is in a.peers and a is in b.peers.
C1_PeerSymmetry ==
    /\ \A a, b \in Nodes : Listed(a, b) <=> Listed(b, a)
    /\ last.op = "connect" =>
          Listed(last.self, last.node) /\ Listed(last.node, last.self)

\* A.connect(A) was the last call, on a node that is also connected to B
C1_Witness ==
    /\ last = [op |-> "connect", self |-> "A", node |-> "A"]
    /\ Listed("A", "A") /\ Listed("A", "B") /\ Listed("B", "A")

NoDuplicates == \A a, b \in Nodes : Count(peers[a], b) <= 1

\* C2: connect is idempotent and peer lists hold no duplicates.  After every
\* connect call each peer list holds each node at most once and the two
\* nodes of the call hold exactly one entry for each other; a connect call
\* on two nodes that are already connected (in either direction) leaves
\* every peer list as it was.  Entries are node objects, not id values.
C2_ConnectIdempotent ==
    [][\A a, b \in Nodes :
          IsConnect(a, b) =>
             /\ NoDuplicates'
             /\ Count(peers'[a], b) = 1
             /\ Count(peers'[b], a) = 1
             /\ (Listed(a, b) \/ Listed(b, a)) => peers' = peers]_vars

\* A was connected to B, then to C, and the last call connected B to A
\* again; C carries the same id as A and is still a separate entry
C2_Witness ==
    /\ last = [op |-> "connect", self |-> "B", node |-> "A"]
    /\ peers["A"] = <<"B", "C">>
    /\ peers["B"] = <<"A">>
    /\ peers["C"] = <<"A">>
    /\ id["A"] = id["C"]

\* C3: set_role on a node whose role is WORD_GENERATOR raises for every
\* target role, WORD_GENERATOR included, and changes no role, no peer list
\* and no object.
C3_GeneratorSetRoleFails ==
    [][\A n \in Nodes, r \in Roles :
          (IsSetRole(n, r) /\ role[n] = WORD_GENERATOR) =>
             /\ result' = "ValueError"
             /\ role' = role
             /\ peers' = peers
             /\ kind' = kind]_vars

\* set_role(WORD_GENERATOR) was called on a WORD_GENERATOR and raised
C3_Witness ==
    /\ last.op = "set_role"
    /\ last.role = WORD_GENERATOR
    /\ result = "ValueError"
    /\ role[last.self] = WORD_GENERATOR

\* C4: set_role(r) on a node whose role is ENCRYPTER, SENDER or RECEIVER
\* returns for every r (the current role and WORD_GENERATOR included) and
\* the node's role is r afterwards.
C4_SetRoleSucceeds ==
    [][\A n \in Nodes, r \in Roles :
          (IsSetRole(n, r) /\ role[n] \in {ENCRYPTER, SENDER, RECEIVER}) =>
             /\ result' = "returned"
             /\ role'[n] = r]_vars

\* a node that was not built as a WordGenerator was given that role
C4_Witness ==
    /\ last.op = "set_role"
    /\ last.role = WORD_GENERATOR
    /\ result = "returned"
    /\ kind[last.self] # "WordGenerator"
    /\ role[last.self] = WORD_GENERATOR

\* the line Receiver r prints for a message from s
Receipt(r, s, m) ==
    [receiver |-> r, sender |-> s, message |-> m, line |-> <<id[r], id[s], m>>]

\* A (Sender), B (Sender), C (Receiver) after A.connect(B); B.connect(C)
ChainBuilt ==
    /\ kind = [n \in Nodes |-> IF n = "C" THEN "Receiver" ELSE "Sender"]
    /\ role = [n \in Nodes |-> IF n = "C" THEN RECEIVER ELSE SENDER]
    /\ peers = [n \in Nodes |->
                  CASE n = "A" -> <<"B">>
                    [] n = "B" -> <<"A", "C">>
                    [] OTHER -> <<"B">>]

\* C5: chain scenario.  On the chain A - B - C built by A.connect(B) and
\* B.connect(C), with A and B Senders and C a Receiver, the call
\* A.send_message("hi", A) completes having printed exactly one receipt:
\* receiver C, sender B, message "hi".
C5_ChainOneReceipt ==
    (/\ ChainBuilt
     /\ last = [op |-> "send_message", self |-> "A", message |-> "hi",
                sender |-> "A"]
     /\ result # "running")
    => /\ result = "returned"
       /\ receipts = <<Receipt("C", "B", "hi")>>

\* h is a SENDER whose peers are exactly the two other nodes, both Receiver
\* objects with role RECEIVER
Star(h) ==
    /\ role[h] = SENDER
    /\ Range(peers[h]) = Nodes \ {h}
    /\ \A r \in Nodes \ {h} : role[r] = RECEIVER /\ HasReceive(r)

\* C6: star scenario.  When the hub h of a star calls h.send_message(m, h),
\* the call returns with exactly two receipts, one for each of the two
\* receivers, each naming h as sender and carrying m, whatever the order of
\* h's peer list.
C6_StarTwoReceipts ==
    \A h \in Nodes :
       (/\ Star(h)
        /\ last.op = "send_message" /\ last.self = h /\ last.sender = h
        /\ result # "running")
       => /\ result = "returned"
          /\ Len(receipts) = 2
          /\ {receipts[i].receiver : i \in 1..2} = Nodes \ {h}
          /\ \A i \in 1..2 :
                receipts[i] = Receipt(receipts[i].receiver, h, last.message)

\* the hub B, connected to C before A, has sent "x" and the call returned
C6_Witness ==
    /\ Star("B")
    /\ peers["B"] = <<"C", "A">>
    /\ last = [op |-> "send_message", self |-> "B", message |-> "x",
               sender |-> "B"]
    /\ result = "returned"

\* three SENDER nodes, each connected to the two others and to nothing else
Triangle ==
    \A n \in Nodes : role[n] = SENDER /\ Range(peers[n]) = Nodes \ {n}

TriangleNeverReturns ==
    (Triangle /\ last.op = "send_message") =>
       /\ receipts = <<>>
       /\ result \in {"running", "RecursionError"}
       /\ result = "running" =>
             /\ stack # <<>>
             /\ \A k \in 1..Len(stack) : stack[k].i = 1

TriangleGrows ==
    (Triangle /\ result = "running") =>
       \/ Len(stack') = Len(stack) + 1
       \/ Len(stack) = MaxDepth /\ result' = "RecursionError"

\* C7: triangle hazard.  With three SENDER nodes in a triangle, a
\* send_message on any of them never returns and prints no receipt: no
\* invocation gets past its first peer, every step adds a frame, and the
\* only way the call ends is the interpreter's recursion limit, whatever
\* that limit is.
C7_TriangleHazard == []TriangleNeverReturns /\ [][TriangleGrows]_vars

\* a send_message in the triangle ended at the recursion limit
C7_Witness ==
    /\ Triangle
    /\ last.op = "send_message"
    /\ result = "RecursionError"

\* C8: the sender a receipt names is the node whose send_message invocation
\* delivered the message (the immediate forwarder), at every depth.
C8_ReceiptNamesForwarder ==
    [][(stack # <<>> /\ receipts' # receipts) =>
          receipts'[Len(receipts')].sender = Top.self]_vars

\* C9: a send_message(message, S) invocation running on a node other than S
\* invokes neither S.send_message nor S.receive_message, even when S is in
\* the peer list.
C9_NeverBackToSender ==
    [][(HasPeer /\ Top.sender # Top.self /\ Peer = Top.sender) =>
          /\ receipts' = receipts
          /\ Len(stack') <= Len(stack)
          /\ result' # "RecursionError"]_vars

NoReceiverFrame ==
    \A k \in 2..Len(stack) : role[stack[k].self] # RECEIVER

ReceiveIsTerminal ==
    (stack # <<>> /\ receipts' # receipts) =>
       /\ role[Peer] = RECEIVER
       /\ receipts' = Append(receipts,
                        Receipt(Peer, receipts'[Len(receipts')].sender, Top.message))
       /\ stack' = Advance(stack)

\* C10: a receiver is terminal.  No nested send_message invocation runs on
\* a node whose role is RECEIVER, and a delivery adds exactly one receipt,
\* for the RECEIVER peer at hand, and starts no invocation: the delivering
\* invocation just moves on to its next peer.
C10_ReceiverTerminal == []NoReceiverFrame /\ [][ReceiveIsTerminal]_vars

\* a nested invocation has delivered a message and is still running
C10_Witness ==
    /\ result = "running"
    /\ Len(stack) >= 2
    /\ Len(receipts) >= 1

\* C11: WORD_GENERATOR is permanent.  A node whose role is WORD_GENERATOR,
\* by construction or by set_role, has that role after every later step,
\* whatever calls are made on whatever nodes.
C11_GeneratorPermanent ==
    [][\A n \in Nodes :
          role[n] = WORD_GENERATOR => role'[n] = WORD_GENERATOR]_vars

\* a Sender was given WORD_GENERATOR by set_role, and a later
\* set_role(SENDER) on it raised
C11_Witness ==
    /\ last.op = "set_role"
    /\ last.role = SENDER
    /\ result = "ValueError"
    /\ kind[last.self] = "Sender"
    /\ role[last.self] = WORD_GENERATOR

\* the frame below frame k made the call that frame k runs
NestedCallOK(k) ==
    LET caller == stack[k - 1]
        callee == stack[k]
    IN  /\ callee.sender = caller.self
        /\ callee.self # caller.self
        /\ caller.i <= Len(peers[caller.self])
        /\ callee.self = peers[caller.self][caller.i]
        /\ role[callee.self] # RECEIVER
        /\ callee.message = caller.message

CallStackOK == \A k \in 2..Len(stack) : NestedCallOK(k)

\* every peer that is neither a RECEIVER nor the running node is forwarded
\* to, the node the message came from included
EveryOtherPeerCalled ==
    (HasPeer /\ role[Peer] # RECEIVER /\ Peer # Top.self) =>
       \/ /\ Len(stack') = Len(stack) + 1
          /\ stack'[Len(stack')].self = Peer
          /\ stack'[Len(stack')].sender = Top.self
       \/ Len(stack) = MaxDepth /\ result' = "RecursionError"

SelfConnectOK ==
    \A a \in Nodes :
       IsConnect(a, a) => result' = "returned" /\ Count(peers'[a], a) = 1

SelfEntrySkipped ==
    (HasPeer /\ Peer = Top.self /\ role[Top.self] # RECEIVER) =>
       stack' = Advance(stack) /\ receipts' = receipts

NoSelfCall == \A k \in 2..Len(stack) : stack[k].self # stack[k - 1].self

OnlySelfPeerReturns ==
    (/\ last.op = "send_message"
     /\ peers[last.self] = <<last.self>>
     /\ role[last.self] # RECEIVER)
    => /\ receipts = <<>>
       /\ Len(stack) <= 1
       /\ result \in {"running", "returned"}

SelfLoopState == NoSelfCall /\ OnlySelfPeerReturns

\* C13: self-loop handling.  a.connect(a) returns and leaves a in a's peer
\* list exactly once; a send_message running on a node whose role is not
\* RECEIVER skips its own entry, so no invocation is ever called from an
\* invocation on the same node, and when the node is its own only peer the
\* call returns with no receipt and no nested call.
C13_SelfLoop ==
    /\ []SelfLoopState
    /\ [][SelfConnectOK /\ SelfEntrySkipped]_vars

\* A, connected only to itself, has sent a message and the call returned
C13_Witness ==
    /\ peers["A"] = <<"A">>
    /\ role["A"] # RECEIVER
    /\ last.op = "send_message"
    /\ last.self = "A"
    /\ result = "returned"
    /\ receipts = <<>>

IsPrefix(s, t) == Len(s) <= Len(t) /\ SubSeq(t, 1, Len(s)) = s

\* a step that starts a send_message call or belongs to one
BroadcastFrame ==
    (stack # <<>> \/ stack' # <<>>) =>
       /\ peers' = peers
       /\ role' = role
       /\ kind' = kind
       /\ stack # <<>> => IsPrefix(receipts, receipts')

\* C14: send_message changes no graph or role state.  No step of a
\* broadcast, from the outermost call to its end by return or by error,
\* changes a peer list, a role or an object; it only adds receipts.
C14_BroadcastFrame == [][BroadcastFrame]_vars

\* a broadcast that printed receipts and ended at the recursion limit
C14_Witness ==
    /\ last.op = "send_message"
    /\ result = "RecursionError"
    /\ Len(receipts) >= 2

AppendOnly == \A n \in Nodes : IsPrefix(peers[n], peers'[n])

ConnectFrame ==
    \A a, b \in Nodes :
       IsConnect(a, b) =>
          /\ role' = role
          /\ kind' = kind
          /\ \A n \in Nodes \ {a, b} : peers'[n] = peers[n]
          /\ peers'[a] \in {peers[a], Append(peers[a], b)}
          /\ peers'[b] \in {peers[b], Append(peers[b], a)}

\* C15: peer lists are append-only, in connection order.  Across every step
\* each peer list keeps its entries in place (the old list is a prefix of
\* the new one); a.connect(b) can only append b to a's list and a to b's
\* list, once each, and changes no other list and no role.
C15_AppendOnly == [][AppendOnly /\ ConnectFrame]_vars

\* A was connected to B first; the last call, C.connect(A), put C behind B
C15_Witness ==
    /\ last = [op |-> "connect", self |-> "C", node |-> "A"]
    /\ peers["A"] = <<"B", "C">>
    /\ peers["B"] = <<"A">>
    /\ peers["C"] = <<"A">>

\* the cursor of an invocation moves by one peer, and only when the
\* invocation is the innermost one after the step: an invocation waits for
\* the call it made
CursorOrder ==
    (stack # <<>> /\ stack' # <<>>) =>
       /\ \A k \in 1..Len(stack') :
             k <= Len(stack) =>
                /\ stack'[k].self = stack[k].self
                /\ stack'[k].i =
                      IF k = Len(stack') /\ Len(stack') <= Len(stack)
                      THEN stack[k].i + 1
                      ELSE stack[k].i
       /\ Len(stack') > Len(stack) =>
             /\ Len(stack') = Len(stack) + 1
             /\ stack'[Len(stack')].i = 1
             /\ stack'[Len(stack')].self = Peer
       /\ receipts' # receipts =>
             /\ Len(receipts') = Len(receipts) + 1
             /\ receipts'[Len(receipts')].receiver = Peer

\* the receipts of a returned call on a node whose peers are all receivers
ReceiptsInPeerOrder ==
    (/\ last.op = "send_message"
     /\ result # "running"
     /\ role[last.self] # RECEIVER
     /\ \A p \in Range(peers[last.self]) : role[p] = RECEIVER /\ HasReceive(p))
    => /\ result = "returned"
       /\ receipts = [j \in 1..Len(peers[last.self]) |->
                        Receipt(peers[last.self][j], last.sender, last.message)]

\* C16: within one invocation the peers are handled once each, in peer-list
\* order, each only after everything the earlier ones triggered has
\* finished; a non-RECEIVER node whose peers are all receivers gets its
\* receipts in the order in which the peers were connected.
C16_PeerOrder == []ReceiptsInPeerOrder /\ [][CursorOrder]_vars

\* A, connected to C and then to B, both receivers, has sent a message
C16_Witness ==
    /\ peers["A"] = <<"C", "B">>
    /\ role["A"] # RECEIVER
    /\ last.op = "send_message"
    /\ last.self = "A"
    /\ result = "returned"
    /\ Len(receipts) = 2
    /\ receipts[1].receiver = "C"
    /\ receipts[2].receiver = "B"

\* the top-level send_message call on a non-RECEIVER node is over
SendOver ==
    /\ last.op = "send_message"
    /\ role[last.self] # RECEIVER
    /\ result # "running"

TerminalPeers(n) ==
    \A p \in Range(peers[n]) :
       p = n \/ (role[p] = RECEIVER /\ kind[p] = "Receiver")

\* in a call on a non-RECEIVER node, no invocation gets past a peer it
\* forwards to
NeverPastForward ==
    (stack # <<>> /\ role[stack[1].self] # RECEIVER) =>
       \A k \in 1..Len(stack) :
          \A j \in 1..(stack[k].i - 1) :
             LET p == peers[stack[k].self][j]
             IN  p = stack[k].self \/ role[p] = RECEIVER

RoleOnlyReceiverAborts ==
    (HasPeer /\ role[Peer] = RECEIVER /\ kind[Peer] # "Receiver") =>
       /\ result' = "AttributeError"
       /\ stack' = <<>>
       /\ receipts' = receipts

\* the peer at hand is a Receiver object whose role is no longer RECEIVER:
\* it is forwarded to like any other node
FormerReceiverForwarded ==
    (HasPeer /\ kind[Peer] = "Receiver" /\ role[Peer] # RECEIVER
        /\ Peer # Top.self) =>
       /\ receipts' = receipts
       /\ \/ /\ Len(stack') = Len(stack) + 1
             /\ stack'[Len(stack')].self = Peer
          \/ Len(stack) = MaxDepth /\ result' = "RecursionError"

\* receipts are printed by Receiver objects whose role is RECEIVER
ReceiptsFromReceivers ==
    \A j \in 1..Len(receipts) :
       /\ role[receipts[j].receiver] = RECEIVER
       /\ kind[receipts[j].receiver] = "Receiver"

\* C18: delivery goes by the role field, the ability to receive by the
\* class.  Reaching a peer whose role is RECEIVER but which was not built
\* as a Receiver aborts the send_message with an error and no receipt;
\* a Receiver whose role was changed away from RECEIVER is forwarded to
\* like any non-receiver and prints no receipt.
C18_RoleVersusClass ==
    /\ []ReceiptsFromReceivers
    /\ [][RoleOnlyReceiverAborts /\ FormerReceiverForwarded]_vars

\* a nested invocation runs on a Receiver object whose role was changed
\* away from RECEIVER, and nothing was printed
C18_Witness ==
    /\ Len(stack) >= 2
    /\ kind[Top.self] = "Receiver"
    /\ role[Top.self] # RECEIVER
    /\ receipts = <<>>

\* C19: connect always terminates.  In every state reached by completed
\* connect calls, a.connect(b) returns after at most three nested connect
\* invocations: one when b is already a peer of a, two when a = b is new,
\* three (a.connect(b), b.connect(a), a.connect(b)) for a new pair.
C19_ConnectTerminates ==
    \A a, b \in Nodes :
       /\ connectCalls(peers, a, b, 1) <= 3
       /\ connectCalls(peers, a, b, 1) =
             IF Listed(a, b) THEN 1 ELSE IF a = b THEN 2 ELSE 3

\* A is connected to B only: connecting A to B, to itself and to C takes
\* one, two and three invocations
C19_Witness ==
    /\ last.op = "connect"
    /\ peers["A"] = <<"B">>
    /\ connectCalls(peers, "A", "B", 1) = 1
    /\ connectCalls(peers, "A", "A", 1) = 2
    /\ connectCalls(peers, "A", "C", 1) = 3
====
